---- MODULE Spec2Model ----
(***************************************************************************)
(* A model of the dish-data-pipeline repository:                           *)
(*   src/pipeline/data_pipeline.py     fetch, clean, quality gate,         *)
(*                                     staging load, merge, audit, main()  *)
(*   src/DAG/etl_google_analytics_dag.py  the per-endpoint task chains     *)
(*                                                                         *)
(* Values.  Every JSON scalar is a string: "i:1" is the JSON number 1,     *)
(* "1" is the JSON string "1"; NULL is a null cell (None, NaN, NaT, SQL    *)
(* NULL).  A JSON object is a function from its keys; a key that is not in *)
(* the DOMAIN is absent.  load_timestamp is an integer clock reading.      *)
(***************************************************************************)
EXTENDS Integers, Sequences, FiniteSets, TLC

VARIABLES
    api,          \* what the upstream API answers: endpoint name -> page responses
    bucket,       \* TRUE when the storage sink is available (bucket is not None)
    day,          \* index into Days: the current UTC date
    clock,        \* the current UTC instant (pd.Timestamp.now)
    storage,      \* the objects in the bucket: a set of [path, content,
                  \* generation]
    fname,        \* the call of fetch_paginated_data that SpecFetch follows page
    fetch,        \* by page: its `name` argument; its locals and position
    staging,      \* the tables staging_{name}: a frame [cols, rows] per endpoint
    tgt,          \* the tables tgt_{name}: the rows per endpoint
    load_audit,   \* the table load_audit: the rows appended, in order
    upsert,       \* the call of upsert_to_final that SpecMerge makes: its
                  \* argument, the target rows it found, whether it raised,
                  \* whether it sent a query to the warehouse
    call,         \* a function called on its own (SpecBatch): its arguments
                  \* and what it returned
    entry,        \* how the code is driven: "cli" (python data_pipeline.py),
                  \* "import" (main() called on the imported module), "dag"
    run,          \* the number of runs started
    main,         \* main(): its locals and position
    dag,          \* the DAG run: per endpoint the task states, tries and XComs
    hist,         \* history of the current run, per endpoint: the stages
                  \* invoked, the verdict, the outcome of load and merge,
                  \* the log_audit calls, whether the chain has ended
    prev,         \* what the current run found at its start: see Snapshot
    faults        \* failures of the storage and the warehouse so far

fetchVars == <<fname, fetch>>
envVars == <<api, bucket, day, clock>>
tableVars == <<staging, tgt, load_audit>>
runVars == <<entry, run, main, dag, hist, prev, faults>>
vars == <<envVars, storage, fetchVars, tableVars, upsert, call, runVars>>

(***************************************************************************)
(* Bounds of the model.                                                    *)
(***************************************************************************)
MaxPages == 2     \* pages the API script holds; later pages are empty
MaxRuns == 2      \* runs of the pipeline in one behaviour
MaxDagRuns == 1  \* DAG runs in one behaviour
MaxFaults == 2    \* failures of the storage and the warehouse in one behaviour

NULL == "NULL"

\* cf.ENDPOINTS, in dictionary order.
ENDPOINTS == <<"daily_visits", "ga_sessions">>

EndpointNames == {ENDPOINTS[i] : i \in DOMAIN ENDPOINTS}

\* The UTC dates a run can fall on (two Wednesdays).
Days == <<"2024-01-10", "2024-01-17">>

(***************************************************************************)
(* Conversions.                                                            *)
(***************************************************************************)
\* The text of a JSON number.
IntText == ("i:1" :> "1") @@ ("i:2" :> "2") @@ ("i:10" :> "10") @@ ("i:20" :> "20")

\* Series.astype(str): a number becomes its text, a string stays, NaN
\* becomes the string "nan".
AsTypeStr(v) ==
    IF v = NULL THEN "nan"
    ELSE IF v \in DOMAIN IntText THEN IntText[v]
    ELSE v

\* CAST(x AS STRING) of the warehouse: NULL stays NULL.
CastString(v) ==
    IF v = NULL THEN NULL
    ELSE IF v \in DOMAIN IntText THEN IntText[v]
    ELSE v

\* The calendar date of the timestamps the model uses.
DateText ==
    ("2024-01-01T00:00:00" :> "2024-01-01") @@ ("2024-01-01T12:00:00" :> "2024-01-01") @@
    ("2024-01-02T00:00:00" :> "2024-01-02") @@ ("2024-01-03T00:00:00" :> "2024-01-03") @@
    ("2024-01-04T00:00:00" :> "2024-01-04") @@ ("2024-01-05T00:00:00" :> "2024-01-05") @@
    ("2024-01-06T00:00:00" :> "2024-01-06")

\* pd.to_datetime(x, errors="coerce").dt.date: an unparseable value and a
\* null both become NaT, which is loaded as NULL.
ToDate(v) == IF v \in DOMAIN DateText THEN DateText[v] ELSE NULL

(***************************************************************************)
(* fetch_paginated_data.                                                   *)
(*                                                                         *)
(* A response is [kind, status, body]: kind "transport_error" (session.get *)
(* raises), "bad_json" (resp.json() raises) or "json"; body is the JSON    *)
(* object, a function from the keys it carries:                            *)
(*   "records", "data"   a sequence of records                             *)
(*   "pagination"        "{}", "{has_next:true}", "{has_next:false}" or    *)
(*                       "null" (not an object)                            *)
(*   "hasMore"           "true" or "false"                                 *)
(***************************************************************************)
\* dict.get(k) of a list-valued key: a missing key gives None, falsy like [].
GetList(body, k) == IF k \in DOMAIN body THEN body[k] ELSE <<>>

\* data.get("records") or data.get("data") or []
PageRecords(body) ==
    IF GetList(body, "records") # <<>> THEN GetList(body, "records")
    ELSE GetList(body, "data")

\* data.get("pagination", {}).get("has_next") raises AttributeError when the
\* value of "pagination" is not an object.
PaginationRaises(body) == "pagination" \in DOMAIN body /\ body["pagination"] = "null"

HasNext(body) == "pagination" \in DOMAIN body /\ body["pagination"] = "{has_next:true}"

HasMore(body) == "hasMore" \in DOMAIN body /\ body["hasMore"] = "true"

\* The break test after a stored page: stop when neither signal says more.
NoMorePagesEither(body) == ~HasNext(body) \/ ~HasMore(body)

NoMorePages(body) == ~HasNext(body) /\ ~HasMore(body)

\* raw_api_data/{name}/year=Y/month=MM/day=DD/{name}_page_{page}.json: the
\* path is determined by, and determines, the name, the date and the page.
BlobPath(name, d, page) == <<name, Days[d], page>>

\* blob.upload_from_string: the object at that path now holds the content;
\* writing to a path that holds an object replaces it (a new generation).
Upload(store, path, content) ==
    LET old == {o \in store : o.path = path}
        generation == IF old = {} THEN 1 ELSE (CHOOSE o \in old : TRUE).generation + 1
    IN  (store \ old) \cup {[path |-> path, content |-> content,
                             generation |-> generation]}

\* What the API answers for page `page`: pages after the script are empty.
EmptyPage == [kind |-> "json", status |-> 200, body |-> [records |-> <<>>]]

ApiResponse(script, page) == IF page <= Len(script) THEN script[page] ELSE EmptyPage

\* The locals at entry.  The other fields are history: the pages requested
\* so far, the pages whose records were added to all_records, the pages
\* whose object was written, and the way the loop was left ("status",
\* "empty", "no_more", or "except:<where>" for the except branch).
FetchEntry(store) ==
    [all_records |-> <<>>, blob_paths |-> <<>>, page |-> 1, done |-> FALSE,
     storage |-> store, requested |-> <<>>, pages |-> <<>>, uploaded |-> <<>>,
     exit |-> "running"]

Break(f, how) == [f EXCEPT !.done = TRUE, !.exit = how]

\* all_records.extend(records)
AccumulatePrepend(f, records) ==
    [f EXCEPT !.all_records = records \o @, !.pages = Append(@, f.page)]

Accumulate(f, records) ==
    [f EXCEPT !.all_records = @ \o records, !.pages = Append(@, f.page)]

\* if bucket: the path joins the list, then the object is uploaded.
UploadPage(f, path, records, uploadOk) ==
    LET listed == [f EXCEPT !.blob_paths = Append(@, path)]
    IN  IF uploadOk
        THEN [listed EXCEPT !.storage = Upload(@, path, records),
                            !.uploaded = Append(@, f.page)]
        ELSE Break(listed, "except:upload")

\* One iteration of the while loop, for the response `resp` to page f.page.
FetchPageStep(f, resp, name, bkt, d, uploadOk) ==
    LET asked == [f EXCEPT !.requested = Append(@, f.page)]
        records == PageRecords(resp.body)
        acc == Accumulate(asked, records)
        stored == IF bkt THEN UploadPage(acc, BlobPath(name, d, f.page), records, uploadOk)
                  ELSE acc
    IN  IF resp.kind = "transport_error" THEN Break(asked, "except:get")
        ELSE IF resp.status # 200 THEN Break(asked, "status")
        ELSE IF resp.kind = "bad_json" THEN Break(asked, "except:json")
        ELSE IF records = <<>> THEN Break(asked, "empty")
        ELSE IF stored.done THEN stored
        ELSE IF PaginationRaises(resp.body) THEN Break(stored, "except:pagination")
        ELSE IF NoMorePages(resp.body) THEN Break(stored, "no_more")
        ELSE [stored EXCEPT !.page = @ + 1]

(***************************************************************************)
(* Data frames and tables: [cols, rows], rows a sequence of functions from *)
(* cols to cell values.                                                    *)
(***************************************************************************)
RECURSIVE Pick(_, _, _)
\* The subsequence of s at the indices in I that are >= i, in order.
Pick(s, I, i) ==
    IF i > Len(s) THEN <<>>
    ELSE (IF i \in I THEN <<s[i]>> ELSE <<>>) \o Pick(s, I, i + 1)

\* pd.DataFrame(): no columns, no rows.
EmptyFrame == [cols |-> {}, rows |-> <<>>]

\* The values of a row on the columns K.
KeyOf(row, K) == [c \in K |-> row[c]]

\* The objects among the values of the raw records modelled: json_normalize
\* flattens them to parent_child columns.
NestedKeys == {"device", "geoNetwork", "totals"}

FlatKeys(r) ==
    UNION {IF k \in NestedKeys THEN {k \o "_" \o c : c \in DOMAIN r[k]} ELSE {k} :
           k \in DOMAIN r}

Flatten(r) ==
    LET nested == UNION {{<<k, c>> : c \in DOMAIN r[k]} : k \in DOMAIN r \cap NestedKeys}
    IN  [key \in FlatKeys(r) |->
            IF key \in DOMAIN r THEN r[key]
            ELSE LET kc == CHOOSE kc \in nested : kc[1] \o "_" \o kc[2] = key
                 IN  r[kc[1]][kc[2]]]

\* json_normalize(records, sep="_"): the columns are the union of the
\* flattened keys; a record without a key has a null cell there.
JsonNormalize(records) ==
    LET flat == [i \in DOMAIN records |-> Flatten(records[i])]
        cols == UNION {DOMAIN flat[i] : i \in DOMAIN records}
    IN  [cols |-> cols,
         rows |-> [i \in DOMAIN records |->
                     [c \in cols |-> IF c \in DOMAIN flat[i] THEN flat[i][c] ELSE NULL]]]

\* df[c] = v, a scalar set on every row.
WithColumn(df, c, v) ==
    [cols |-> df.cols \cup {c},
     rows |-> [i \in DOMAIN df.rows |->
                 [k \in df.cols \cup {c} |-> IF k = c THEN v ELSE df.rows[i][k]]]]

\* The rows drop_duplicates keeps (keep="first"); nulls compare equal.
FirstOccurrences(rows, K) ==
    {i \in DOMAIN rows : \A j \in 1..(i - 1) : KeyOf(rows[j], K) # KeyOf(rows[i], K)}

\* drop_duplicates that keeps the last row of each key instead.
DropDuplicatesKeepLast(rows, K) ==
    Pick(rows, {i \in DOMAIN rows :
                  \A j \in (i + 1)..Len(rows) : KeyOf(rows[j], K) # KeyOf(rows[i], K)}, 1)

DropDuplicates(rows, K) == Pick(rows, FirstOccurrences(rows, K), 1)

\* A count that sees no duplicates.
DuplicatedCountZero(rows, K) == 0

\* df.duplicated(subset=K).sum()
DuplicatedCount(rows, K) == Len(rows) - Cardinality(FirstOccurrences(rows, K))

(***************************************************************************)
(* flatten_and_clean(name, records), at instant `now` of day d.  The cells *)
(* of the records modelled are scalars, so sanitize_dataframe changes      *)
(* nothing.                                                                *)
(***************************************************************************)
flatten_and_clean(name, records, now, d) ==
    IF records = <<>> THEN EmptyFrame
    ELSE LET df == WithColumn(WithColumn(JsonNormalize(records), "load_timestamp", now),
                              "source_file", Days[d])
             subset_cols == IF "visit_date" \in df.cols
                            THEN {"visit_date", "source_file"}
                            ELSE df.cols
         IN  [df EXCEPT !.rows = DropDuplicates(@, subset_cols)]

(***************************************************************************)
(* run_data_quality_checks(df, table_name).  An issue is [kind, cols, n];  *)
(* kind "duplicate" stands for the two messages that hold the word         *)
(* "duplicate", the only ones that do.                                     *)
(***************************************************************************)
MinRows == 5

required_cols(table_name) ==
    IF table_name = "daily_visits" THEN <<"visit_date", "total_visits">>
    ELSE IF table_name = "ga_sessions" THEN <<"visitId", "channelGrouping">>
    ELSE <<>>

\* The composite key of the duplicate check.
DuplicateKey(table_name) ==
    IF table_name = "daily_visits" THEN {"visit_date", "source_file"}
    ELSE IF table_name = "ga_sessions" THEN {"visitId", "source_file"}
    ELSE {}

Issue(kind, cols, n) == [kind |-> kind, cols |-> cols, n |-> n]

\* A null check that finds nothing.
HasNullNever(df, c) == FALSE

HasNull(df, c) == \E i \in DOMAIN df.rows : df.rows[i][c] = NULL

Issues(df, table_name) ==
    IF df.rows = <<>> THEN <<Issue("empty", <<>>, 0)>>
    ELSE LET req == required_cols(table_name)
             missing_cols == SelectSeq(req, LAMBDA c : c \notin df.cols)
             nulls == SelectSeq(req, LAMBDA c : c \in df.cols /\ HasNull(df, c))
             key == DuplicateKey(table_name)
             dups == IF key # {} /\ key \subseteq df.cols
                     THEN DuplicatedCount(df.rows, key) ELSE 0
         IN  (IF missing_cols # <<>> THEN <<Issue("missing_columns", missing_cols, 0)>>
              ELSE <<>>)
             \o [i \in DOMAIN nulls |-> Issue("null", <<nulls[i]>>, 0)]
             \o (IF dups > 0 THEN <<Issue("duplicate", <<>>, dups)>> ELSE <<>>)
             \o (IF Len(df.rows) < MinRows
                 THEN <<Issue("low_count", <<>>, Len(df.rows))>> ELSE <<>>)

run_data_quality_checks(df, table_name) ==
    [valid |-> Issues(df, table_name) = <<>>, issues |-> Issues(df, table_name)]

(***************************************************************************)
(* load_to_staging: the batch as it is loaded (WRITE_TRUNCATE replaces the *)
(* table by it).                                                           *)
(***************************************************************************)
StagingFrame(df) ==
    [cols |-> df.cols,
     rows |-> [i \in DOMAIN df.rows |->
                 [c \in df.cols |->
                     IF c = "visit_date" THEN ToDate(df.rows[i][c])
                     ELSE IF c = "visitId" THEN AsTypeStr(df.rows[i][c])
                     ELSE df.rows[i][c]]]]

(***************************************************************************)
(* upsert_to_final: the two MERGE statements.  A table is the sequence of  *)
(* its rows; the order carries no meaning.                                 *)
(***************************************************************************)
DvColumns == {"visit_date", "total_visits", "load_timestamp", "source_file"}

GaColumns == {"visitId", "channelGrouping", "device_browser", "geoNetwork_country",
              "totals_hits", "load_timestamp", "source_file"}

\* The columns of staging the statement names; without one the query fails.
MergeColumns(table_name) == IF table_name = "daily_visits" THEN DvColumns ELSE GaColumns

\* ON date(T.visit_date) = date(S.visit_date) AND T.source_file = S.source_file
\* (a comparison with NULL is never true).
DvOn(t, s) ==
    /\ t.visit_date # NULL /\ s.visit_date # NULL
    /\ t.visit_date = s.visit_date
    /\ t.source_file = s.source_file

\* ON T.visitId = S.visitId AND T.source_file = S.source_file
GaOn(t, s) ==
    /\ t.visitId # NULL /\ s.visitId # NULL
    /\ t.visitId = s.visitId
    /\ t.source_file = s.source_file

DvUpdate(t, s) ==
    [t EXCEPT !.total_visits = s.total_visits, !.load_timestamp = s.load_timestamp]

DvInsert(s) == [c \in DvColumns |-> s[c]]

\* WHEN MATCHED of ga_sessions without the cast of totals_hits.
GaUpdateNoCast(t, s) ==
    [t EXCEPT !.channelGrouping = s.channelGrouping,
              !.device_browser = s.device_browser,
              !.geoNetwork_country = s.geoNetwork_country,
              !.totals_hits = s.totals_hits,
              !.load_timestamp = s.load_timestamp]

GaUpdate(t, s) ==
    [t EXCEPT !.channelGrouping = s.channelGrouping,
              !.device_browser = s.device_browser,
              !.geoNetwork_country = s.geoNetwork_country,
              !.totals_hits = CastString(s.totals_hits),
              !.load_timestamp = s.load_timestamp]

GaInsert(s) ==
    [c \in GaColumns |-> IF c = "totals_hits" THEN CastString(s[c]) ELSE s[c]]

\* MERGE T USING S: a target row that matches more than one source row is a
\* run-time error of the warehouse and the statement changes nothing.
Merge(T, S, table_name) ==
    LET On(t, r) == IF table_name = "daily_visits" THEN DvOn(t, r) ELSE GaOn(t, r)
        Update(t, r) == IF table_name = "daily_visits" THEN DvUpdate(t, r)
                        ELSE GaUpdate(t, r)
        Insert(r) == IF table_name = "daily_visits" THEN DvInsert(r) ELSE GaInsert(r)
        matches(i) == {j \in DOMAIN S : On(T[i], S[j])}
        ambiguous == \E i \in DOMAIN T : Cardinality(matches(i)) > 1
        updated == [i \in DOMAIN T |->
                      IF matches(i) = {} THEN T[i]
                      ELSE Update(T[i], S[CHOOSE j \in matches(i) : TRUE])]
        fresh == Pick(S, {j \in DOMAIN S : \A i \in DOMAIN T : ~On(T[i], S[j])}, 1)
    IN  IF ambiguous THEN [raised |-> TRUE, rows |-> T]
        ELSE [raised |-> FALSE,
              rows |-> updated \o [j \in DOMAIN fresh |-> Insert(fresh[j])]]

\* ROW_NUMBER() OVER (PARTITION BY visitId, source_file ORDER BY load_timestamp
\* DESC) ... WHERE row_num = 1: one row of each key with the greatest
\* load_timestamp; among rows that tie the warehouse numbers any one first.
\* The set of the reductions it can produce.
GaKey == {"visitId", "source_file"}

\* ORDER BY load_timestamp ASC instead of DESC.
EarliestOfKey(S, i) ==
    \A j \in DOMAIN S :
        KeyOf(S[j], GaKey) = KeyOf(S[i], GaKey) => S[j].load_timestamp >= S[i].load_timestamp

LatestOfKey(S, i) ==
    \A j \in DOMAIN S :
        KeyOf(S[j], GaKey) = KeyOf(S[i], GaKey) => S[j].load_timestamp <= S[i].load_timestamp

GaReductions(S) ==
    LET latest == {i \in DOMAIN S : LatestOfKey(S, i)}
        keys == {KeyOf(S[i], GaKey) : i \in DOMAIN S}
    IN  {Pick(S, I, 1) :
           I \in {J \in SUBSET latest :
                    \A k \in keys : Cardinality({i \in J : KeyOf(S[i], GaKey) = k}) = 1}}

\* What upsert_to_final(table_name) can do to the target rows T when the
\* warehouse runs the query: [raised, rows].
\* A function that builds a query for every table name.
HasUpsertLogicAlways(table_name) == TRUE

\* if table_name == "daily_visits": ... elif table_name == "ga_sessions": ...
\* build a query; else: print and return.
HasUpsertLogic(table_name) == table_name \in {"daily_visits", "ga_sessions"}

UpsertOutcomes(table_name, stg, T) ==
    IF ~HasUpsertLogic(table_name)
    THEN {[raised |-> FALSE, rows |-> T]}
    ELSE IF ~(MergeColumns(table_name) \subseteq stg.cols)
    THEN {[raised |-> TRUE, rows |-> T]}
    ELSE IF table_name = "daily_visits"
    THEN {Merge(T, stg.rows, table_name)}
    ELSE {Merge(T, R, table_name) : R \in GaReductions(stg.rows)}

(***************************************************************************)
(* log_audit: the row appended to load_audit when the load job succeeds;   *)
(* a failed job is printed and swallowed.                                  *)
(***************************************************************************)
AuditRecord(table_name, record_count, status, source_files, now) ==
    [table_name |-> table_name, record_count |-> record_count, status |-> status,
     load_timestamp |-> now, source_files |-> source_files]

log_audit(audit, rec, writeOk) == IF writeOk THEN Append(audit, rec) ELSE audit

\* A log_audit whose except branch raises again.
log_audit_reraises(rec, writeOk) == ~writeOk

\* Whether log_audit raises to its caller: the load job runs inside
\* try/except Exception, whose branch prints.
log_audit_raises(rec, writeOk) == FALSE

(***************************************************************************)
(* The raw records of the model.                                           *)
(***************************************************************************)
DvRecord(date, visits) == [visit_date |-> date, total_visits |-> visits]

GaRecord(id, channel) ==
    [visitId |-> id, channelGrouping |-> channel,
     device |-> [browser |-> "Chrome"], geoNetwork |-> [country |-> "US"],
     totals |-> [hits |-> "i:1"]]

\* Opaque records for the fetcher, which never looks inside a record.
FetchRecords == {DvRecord("2024-01-01T00:00:00", "i:10"),
                 DvRecord("2024-01-02T00:00:00", "i:20")}

PageLists == {<<>>} \cup {<<r>> : r \in FetchRecords}
             \cup {<<DvRecord("2024-01-01T00:00:00", "i:10"),
                     DvRecord("2024-01-02T00:00:00", "i:20")>>}

PaginationValues == {"{}", "{has_next:true}", "{has_next:false}", "null"}

\* The JSON bodies the fetcher is run on.
FetchBodies ==
    {[records |-> l] : l \in PageLists}
    \cup {[data |-> l] : l \in PageLists \ {<<>>}}
    \cup {[records |-> <<>>, data |-> l] : l \in PageLists \ {<<>>}}
    \cup {[records |-> l, pagination |-> p] : l \in PageLists \ {<<>>}, p \in PaginationValues}
    \cup {[records |-> l, hasMore |-> h] : l \in PageLists \ {<<>>}, h \in {"true", "false"}}
    \cup {[records |-> l, pagination |-> p, hasMore |-> h] :
            l \in {<<DvRecord("2024-01-01T00:00:00", "i:10")>>},
            p \in {"{has_next:true}", "{has_next:false}"}, h \in {"true", "false"}}

FetchResponses ==
    {[kind |-> "json", status |-> 200, body |-> b] : b \in FetchBodies}
    \cup {[kind |-> "json", status |-> 500, body |-> [records |-> <<>>]],
          [kind |-> "transport_error", status |-> 0, body |-> [records |-> <<>>]],
          [kind |-> "bad_json", status |-> 200, body |-> [records |-> <<>>]]}

RECURSIVE SeqsUpTo(_, _)
SeqsUpTo(S, n) ==
    IF n = 0 THEN {<<>>}
    ELSE LET shorter == SeqsUpTo(S, n - 1)
         IN  shorter \cup {Append(s, x) : s \in {t \in shorter : Len(t) = n - 1}, x \in S}

\* call where no function is called on its own.
NoCall == [fn |-> "", args |-> <<>>, result |-> <<>>]

\* upsert before the first call of upsert_to_final.
Idle == [table_name |-> "", before |-> <<>>, raised |-> FALSE, queried |-> FALSE]

\* main() before it is called, and between two iterations.
MainIdle ==
    [pc |-> "idle", i |-> 0, records |-> <<>>, source_files |-> <<>>,
     df |-> EmptyFrame, dq_issues |-> <<>>]

\* The tasks of one endpoint's chain:
\* extract >> transform >> dq_check >> load_staging >> upsert_final >> audit_log
Tasks == <<"extract", "transform", "dq_check", "load_staging", "upsert_final", "audit_log">>

TaskNames == {Tasks[i] : i \in DOMAIN Tasks}

\* A chain before its DAG run starts: nothing ran, no XCom was pushed.
NoChain ==
    [state |-> [t \in TaskNames |-> "none"], tries |-> 0, xcom |-> <<>>]

NoHistory ==
    [stages |-> <<>>, verdict |-> "none", issues |-> <<>>, load |-> "none",
     merge |-> "none", audit_calls |-> <<>>, ended |-> FALSE]

\* The run variables where no run is modelled.
NoRuns ==
    /\ entry = "import"
    /\ run = 0
    /\ main = MainIdle
    /\ dag = [e \in EndpointNames |-> NoChain]
    /\ hist = [e \in EndpointNames |-> NoHistory]
    /\ prev = [tgt |-> [e \in EndpointNames |-> <<>>], day |-> 1, start |-> 1,
               merged |-> [e \in EndpointNames |-> FALSE]]
    /\ faults = 0

(***************************************************************************)
(* SpecFetch: one call of fetch_paginated_data, page by page.              *)
(***************************************************************************)
InitFetch ==
    /\ fname \in EndpointNames
    /\ \E script \in SeqsUpTo(FetchResponses, MaxPages) \ {<<>>} :
          api = [e \in EndpointNames |-> script]
    /\ bucket \in BOOLEAN
    /\ day = 1
    /\ clock = 1
    /\ storage = {}
    /\ fetch = FetchEntry({})
    /\ staging = [e \in EndpointNames |-> EmptyFrame]
    /\ tgt = [e \in EndpointNames |-> <<>>]
    /\ load_audit = <<>>
    /\ upsert = Idle
    /\ call = NoCall
    /\ NoRuns

\* The body of the while loop: request page fetch.page and process the answer.
FetchPage ==
    /\ ~fetch.done
    /\ \E uploadOk \in BOOLEAN :
          fetch' = FetchPageStep(fetch, ApiResponse(api[fname], fetch.page),
                                 fname, bucket, day, uploadOk)
    /\ storage' = fetch'.storage
    /\ UNCHANGED <<call, fname, envVars, tableVars, upsert, runVars>>

NextFetch == FetchPage

SpecFetch == InitFetch /\ [][NextFetch]_vars

(***************************************************************************)
(* SpecMerge: upsert_to_final called on given staging and target tables.   *)
(***************************************************************************)
GaPayloads ==
    {[channelGrouping |-> "Direct", device_browser |-> "Chrome",
      geoNetwork_country |-> "US", totals_hits |-> "i:1"],
     [channelGrouping |-> "Organic", device_browser |-> "Firefox",
      geoNetwork_country |-> "DE", totals_hits |-> "i:2"]}

GaRow(id, ts, p) ==
    [visitId |-> id, source_file |-> Days[1], load_timestamp |-> ts,
     channelGrouping |-> p.channelGrouping, device_browser |-> p.device_browser,
     geoNetwork_country |-> p.geoNetwork_country, totals_hits |-> p.totals_hits]

\* Rows of staging_ga_sessions: visitId was cast to text by the loader.
GaStagingRows ==
    {GaRow("1", ts, p) : ts \in {1, 2}, p \in GaPayloads}
    \cup {GaRow("2", 1, p) : p \in {q \in GaPayloads : q.totals_hits = "i:1"}}

\* Rows of tgt_ga_sessions, written by an earlier merge: totals_hits is text.
GaTargetRows == {GaInsert(GaRow(id, 0, p)) : id \in {"1", "2"}, p \in GaPayloads}

DvRow(date, visits, ts) ==
    [visit_date |-> date, total_visits |-> visits, load_timestamp |-> ts,
     source_file |-> Days[1]]

DvStagingRows == {DvRow(dt, v, 2) : dt \in {"2024-01-01", "2024-01-02", NULL},
                                     v \in {"i:10", "i:20"}}

DvTargetRows == {DvRow(dt, "i:10", 0) : dt \in {"2024-01-01", "2024-01-02", NULL}}

\* No two rows of T agree on the columns K.
UniqueOn(T, K) == \A i, j \in DOMAIN T : KeyOf(T[i], K) = KeyOf(T[j], K) => i = j

TableNames == EndpointNames \cup {"users"}

InitMerge ==
    /\ \E sg \in SeqsUpTo(GaStagingRows, 3), tg \in SeqsUpTo(GaTargetRows, 2),
          sd \in SeqsUpTo(DvStagingRows, 2), td \in SeqsUpTo(DvTargetRows, 1) :
          /\ UniqueOn(tg, GaKey)
          /\ (sd = <<>> /\ td = <<>>) \/ (Len(sg) <= 1 /\ tg = <<>>)
          /\ staging = [daily_visits |-> [cols |-> DvColumns, rows |-> sd],
                        ga_sessions |-> [cols |-> GaColumns, rows |-> sg]]
          /\ tgt = [daily_visits |-> td, ga_sessions |-> tg]
    /\ load_audit = <<>>
    /\ upsert = Idle
    /\ call = NoCall
    /\ api = [e \in EndpointNames |-> <<>>]
    /\ bucket = TRUE
    /\ day = 1
    /\ clock = 3
    /\ storage = {}
    /\ fname = "daily_visits"
    /\ fetch = FetchEntry({})
    /\ NoRuns

\* bq_client.query(query).result() raising for a reason of the warehouse's.
QueryFailure(table_name, T) ==
    IF table_name \in EndpointNames THEN {[raised |-> TRUE, rows |-> T]} ELSE {}

\* upsert_to_final(table_name)
UpsertToFinal(table_name) ==
    /\ upsert = Idle
    /\ LET T == IF table_name \in EndpointNames THEN tgt[table_name] ELSE <<>>
           stg == IF table_name \in EndpointNames THEN staging[table_name] ELSE EmptyFrame
       IN  \E out \in UpsertOutcomes(table_name, stg, T) \cup QueryFailure(table_name, T) :
              /\ tgt' = IF table_name \in EndpointNames
                        THEN [tgt EXCEPT ![table_name] = out.rows] ELSE tgt
              /\ upsert' = [table_name |-> table_name, before |-> T,
                            raised |-> out.raised,
                            queried |-> HasUpsertLogic(table_name)]
    /\ UNCHANGED <<call, staging, load_audit, envVars, storage, fetchVars, runVars>>

NextMerge == \E table_name \in TableNames : UpsertToFinal(table_name)

SpecMerge == InitMerge /\ [][NextMerge]_vars

(***************************************************************************)
(* Spec: runs of the whole pipeline, by main() or by the DAG.              *)
(***************************************************************************)
RECURSIVE FetchLoop(_, _, _, _, _, _)
\* The while loop run to its end; the upload of page `bad` fails.
FetchLoop(f, script, name, bkt, d, bad) ==
    IF f.done THEN f
    ELSE FetchLoop(FetchPageStep(f, ApiResponse(script, f.page), name, bkt, d,
                                 f.page # bad),
                   script, name, bkt, d, bad)

fetch_paginated_data(script, name, bkt, d, store, bad) ==
    FetchLoop(FetchEntry(store), script, name, bkt, d, bad)

\* A page of the scripted API.
Page(records, more) ==
    [kind |-> "json", status |-> 200,
     body |-> IF more THEN [records |-> records, hasMore |-> "true"]
              ELSE [records |-> records, hasMore |-> "false"]]

Script(first, rest) ==
    IF first = <<>> THEN <<Page(rest, FALSE)>>
    ELSE <<Page(first, TRUE), Page(rest, FALSE)>>

\* Four records with keys of their own, and the records a script varies.
Filler(name) ==
    IF name = "daily_visits"
    THEN <<DvRecord("2024-01-03T00:00:00", "i:10"), DvRecord("2024-01-04T00:00:00", "i:10"),
           DvRecord("2024-01-05T00:00:00", "i:10"), DvRecord("2024-01-06T00:00:00", "i:10")>>
    ELSE <<GaRecord("3", "Direct"), GaRecord("4", "Direct"),
           GaRecord("5", "Direct"), GaRecord("6", "Direct")>>

VarRecords(name) ==
    IF name = "daily_visits"
    THEN {DvRecord("2024-01-01T00:00:00", "i:10"), DvRecord("2024-01-01T12:00:00", "i:20"),
          DvRecord("n/a", "i:10")}
    ELSE {GaRecord("i:1", "Direct"), GaRecord("1", "Organic"), GaRecord("1", "Direct")}

DefaultScript(name) ==
    Script(Filler(name),
           IF name = "daily_visits" THEN <<DvRecord("2024-01-01T00:00:00", "i:10")>>
           ELSE <<GaRecord("1", "Direct")>>)

Init ==
    /\ entry \in {"cli", "import", "dag"}
    /\ \E focus \in EndpointNames :
          \E first \in {<<>>, Filler(focus)}, rest \in SeqsUpTo(VarRecords(focus), 2) :
             api = [e \in EndpointNames |->
                      IF e = focus THEN Script(first, rest) ELSE DefaultScript(e)]
    /\ bucket \in BOOLEAN
    /\ entry # "import" => bucket
    /\ day = 1
    /\ clock = 1
    /\ storage = {}
    /\ fname = ""
    /\ fetch = FetchEntry({})
    /\ staging = [e \in EndpointNames |-> EmptyFrame]
    /\ tgt = [e \in EndpointNames |-> <<>>]
    /\ load_audit = <<>>
    /\ upsert = Idle
    /\ call = NoCall
    /\ run = 0
    /\ main = MainIdle
    /\ dag = [e \in EndpointNames |-> NoChain]
    /\ hist = [e \in EndpointNames |-> NoHistory]
    /\ prev = [tgt |-> tgt, day |-> day, start |-> day,
               merged |-> [e \in EndpointNames |-> FALSE]]
    /\ faults = 0

\* What a run finds when it starts: the targets, the date the run before it
\* started on and the endpoints that run merged, and the date of its own start.
Snapshot ==
    [tgt |-> tgt, day |-> prev.start, start |-> day,
     merged |-> [e \in EndpointNames |-> hist[e].merge = "ok"]]

\* History: a stage was invoked; log_audit was called.
Staged(h, stage) == [h EXCEPT !.stages = Append(@, stage)]

Audited(h, status, written) ==
    [h EXCEPT !.audit_calls = Append(@, [status |-> status, written |-> written])]

\* The number of failures among the outcomes chosen.
Cost(oks) == Cardinality({i \in DOMAIN oks : ~oks[i]})

\* A load that reports success and leaves the staging table as it was.
load_to_staging_skips(df, stg, jobOk) == [raised |-> FALSE, frame |-> stg]

\* A load that appends to the staging table (WRITE_APPEND).
load_to_staging_appends(df, stg, jobOk) ==
    IF df.rows = <<>> THEN [raised |-> FALSE, frame |-> stg]
    ELSE IF jobOk
    THEN [raised |-> FALSE,
          frame |-> [cols |-> StagingFrame(df).cols,
                     rows |-> SelectSeq(stg.rows, LAMBDA r : DOMAIN r = df.cols)
                              \o StagingFrame(df).rows]]
    ELSE [raised |-> TRUE, frame |-> stg]

\* load_to_staging(df, table_name) on the staging frame stg: [raised, frame].
load_to_staging(df, stg, jobOk) ==
    IF df.rows = <<>> THEN [raised |-> FALSE, frame |-> stg]
    ELSE IF jobOk THEN [raised |-> FALSE, frame |-> StagingFrame(df)]
    ELSE [raised |-> TRUE, frame |-> stg]

\* "duplicate" in issue
ContainsDuplicate(issue) == issue.kind = "duplicate"

\* main, lines 22-25: df.drop_duplicates(subset=<the key of name>)
RemoveDuplicates(name, df) ==
    IF name \in {"ga_sessions", "daily_visits"}
    THEN [df EXCEPT !.rows = DropDuplicates(@, DuplicateKey(name))]
    ELSE df

\* The endpoint of the current iteration of main's loop.
Name == ENDPOINTS[main.i]

\* The loop goes to its next endpoint, or main returns.
NextIteration ==
    IF main.i < Len(ENDPOINTS)
    THEN [MainIdle EXCEPT !.pc = "fetch", !.i = main.i + 1]
    ELSE [MainIdle EXCEPT !.pc = "returned"]

\* The status the except branch of main logs for the exception e.
FailedStatus(e) == "FAILED: " \o e

\* except Exception as e: the audit call of the handler (itself guarded by a
\* try), then the next iteration.
HandlerSkipsAudit(name, h, e, auditOk) ==
    /\ main' = NextIteration
    /\ hist' = [hist EXCEPT ![name] = [h EXCEPT !.ended = TRUE]]
    /\ UNCHANGED load_audit

Handler(name, h, e, auditOk) ==
    /\ load_audit' = log_audit(load_audit,
                               AuditRecord(name, 0, FailedStatus(e), main.source_files, clock),
                               auditOk)
    /\ main' = NextIteration
    /\ hist' = [hist EXCEPT ![name] = [Audited(h, FailedStatus(e), auditOk)
                                          EXCEPT !.ended = TRUE]]

\* A run of main() starts: from the command line (entry "cli") main is called
\* at line 45, before lines 47-279 have defined the clients and the functions.
StartMain ==
    /\ entry \in {"cli", "import"}
    /\ main.pc \in {"idle", "returned"}
    /\ run < MaxRuns
    /\ run' = run + 1
    /\ main' = [MainIdle EXCEPT !.pc = "fetch", !.i = 1]
    /\ prev' = Snapshot
    /\ hist' = [e \in EndpointNames |-> NoHistory]
    /\ UNCHANGED <<call, envVars, storage, fetchVars, tableVars, upsert, entry, dag, faults>>

\* Line 16 from the command line: fetch_paginated_data is not defined yet
\* (NameError); in the handler log_audit is not defined either, and that
\* NameError is caught by the inner try.
MainUndefined ==
    /\ entry = "cli"
    /\ main.pc = "fetch"
    /\ main' = NextIteration
    /\ hist' = [hist EXCEPT ![Name].ended = TRUE]
    /\ UNCHANGED <<call, envVars, storage, fetchVars, tableVars, upsert, entry, run, dag, prev,
                   faults>>

\* Line 16: records, source_files = fetch_paginated_data(endpoint, name, bucket)
MainFetch ==
    /\ entry = "import"
    /\ main.pc = "fetch"
    /\ \E bad \in 0..MaxPages :
          LET f == fetch_paginated_data(api[Name], Name, bucket, day, storage, bad)
              failed == f.exit = "except:upload"
          IN  /\ bad # 0 => failed
              /\ failed => faults < MaxFaults
              /\ faults' = faults + (IF failed THEN 1 ELSE 0)
              /\ storage' = f.storage
              /\ main' = [main EXCEPT !.pc = "clean", !.records = f.all_records,
                                      !.source_files = f.blob_paths]
    /\ hist' = [hist EXCEPT ![Name] = Staged(@, "fetch")]
    /\ UNCHANGED <<call, envVars, fetchVars, tableVars, upsert, entry, run, dag, prev>>

\* Line 17: df = flatten_and_clean(name, records)
MainClean ==
    /\ main.pc = "clean"
    /\ main' = [main EXCEPT !.pc = "validate",
                            !.df = flatten_and_clean(Name, main.records, clock, day)]
    /\ clock' = clock + 1
    /\ hist' = [hist EXCEPT ![Name] = Staged(@, "clean")]
    /\ UNCHANGED <<call, api, bucket, day, storage, fetchVars, tableVars, upsert, entry, run, dag,
                   prev, faults>>

\* Lines 18-29: the quality gate, and what main does with an invalid verdict.
MainValidate ==
    /\ main.pc = "validate"
    /\ LET v == run_data_quality_checks(main.df, Name)
           h == [Staged(hist[Name], "validate")
                    EXCEPT !.verdict = IF v.valid THEN "valid" ELSE "invalid",
                           !.issues = v.issues]
           status == "FAILED: Data Quality"
       IN  IF v.valid
           THEN /\ main' = [main EXCEPT !.pc = "load", !.dq_issues = v.issues]
                /\ hist' = [hist EXCEPT ![Name] = h]
                /\ UNCHANGED <<load_audit, faults>>
           ELSE IF \E i \in DOMAIN v.issues : ContainsDuplicate(v.issues[i])
           THEN /\ main' = [main EXCEPT !.pc = "load", !.dq_issues = v.issues,
                                        !.df = RemoveDuplicates(Name, @)]
                /\ hist' = [hist EXCEPT ![Name] = h]
                /\ UNCHANGED <<load_audit, faults>>
           ELSE \E auditOk \in BOOLEAN :
                  /\ faults + Cost(<<auditOk>>) <= MaxFaults
                  /\ faults' = faults + Cost(<<auditOk>>)
                  /\ load_audit' =
                        log_audit(load_audit,
                                  AuditRecord(Name, Len(main.df.rows), status,
                                              main.source_files, clock),
                                  auditOk)
                  /\ main' = NextIteration
                  /\ hist' = [hist EXCEPT ![Name] =
                                 [Audited(h, status, auditOk) EXCEPT !.ended = TRUE]]
    /\ UNCHANGED <<call, envVars, storage, fetchVars, staging, tgt, upsert, entry, run, dag, prev>>

\* Line 30: load_to_staging(df, name); an exception goes to the handler.
MainLoad ==
    /\ main.pc = "load"
    /\ \E jobOk, auditOk \in BOOLEAN :
          LET r == load_to_staging(main.df, staging[Name], jobOk)
              oks == IF r.raised THEN <<jobOk, auditOk>> ELSE <<jobOk>>
          IN  /\ jobOk => auditOk
              /\ faults + Cost(oks) <= MaxFaults
              /\ faults' = faults + Cost(oks)
              /\ staging' = [staging EXCEPT ![Name] = r.frame]
              /\ IF r.raised
                 THEN Handler(Name, [hist[Name] EXCEPT !.load = "raised"], "load", auditOk)
                 ELSE /\ main' = [main EXCEPT !.pc = "upsert"]
                      /\ hist' = [hist EXCEPT ![Name] = [@ EXCEPT !.load = "ok"]]
                      /\ UNCHANGED load_audit
    /\ UNCHANGED <<call, envVars, storage, fetchVars, tgt, upsert, entry, run, dag, prev>>

\* Line 31: upsert_to_final(name); an exception goes to the handler.
MainUpsert ==
    /\ main.pc = "upsert"
    /\ \E queryOk, auditOk \in BOOLEAN :
          \E out \in IF queryOk THEN UpsertOutcomes(Name, staging[Name], tgt[Name])
                     ELSE QueryFailure(Name, tgt[Name]) :
             LET oks == IF out.raised THEN <<queryOk, auditOk>> ELSE <<queryOk>>
             IN  /\ ~out.raised => auditOk
                 /\ faults + Cost(oks) <= MaxFaults
                 /\ faults' = faults + Cost(oks)
                 /\ tgt' = [tgt EXCEPT ![Name] = out.rows]
                 /\ IF out.raised
                    THEN Handler(Name, [hist[Name] EXCEPT !.merge = "raised"], "merge",
                                 auditOk)
                    ELSE /\ main' = [main EXCEPT !.pc = "audit"]
                         /\ hist' = [hist EXCEPT ![Name] = [@ EXCEPT !.merge = "ok"]]
                         /\ UNCHANGED load_audit
    /\ UNCHANGED <<call, envVars, storage, fetchVars, staging, upsert, entry, run, dag, prev>>

\* Line 32: log_audit(name, len(df), "SUCCESS", source_files)
MainAudit ==
    /\ main.pc = "audit"
    /\ \E auditOk \in BOOLEAN :
          /\ faults + Cost(<<auditOk>>) <= MaxFaults
          /\ faults' = faults + Cost(<<auditOk>>)
          /\ load_audit' = log_audit(load_audit,
                                     AuditRecord(Name, Len(main.df.rows), "SUCCESS",
                                                 main.source_files, clock),
                                     auditOk)
          /\ hist' = [hist EXCEPT ![Name] =
                         [Audited(@, "SUCCESS", auditOk) EXCEPT !.ended = TRUE]]
    /\ main' = NextIteration
    /\ UNCHANGED <<call, envVars, storage, fetchVars, staging, tgt, upsert, entry, run, dag, prev>>

\* Between two runs the date may change.
NextDay ==
    /\ run >= 1
    /\ run < (IF entry = "dag" THEN MaxDagRuns ELSE MaxRuns)
    /\ main.pc \in {"idle", "returned"}
    /\ \A e \in EndpointNames : hist[e].ended
    /\ day < Len(Days)
    /\ day' = day + 1
    /\ UNCHANGED <<call, api, bucket, clock, storage, fetchVars, tableVars, upsert, runVars>>

\* default_args: 'retries': 2
Retries == 2

Index(t) == CHOOSE i \in DOMAIN Tasks : Tasks[i] = t

\* The tasks downstream of t in the chain.
After(t) == {Tasks[j] : j \in (Index(t) + 1)..Len(Tasks)}

\* Task t of the chain of endpoint e can run: its upstream tasks are done.
Ready(e, t) ==
    /\ entry = "dag"
    /\ run >= 1
    /\ ~hist[e].ended
    /\ \A j \in DOMAIN Tasks :
          dag[e].state[Tasks[j]] = "none" <=> j >= Index(t)

ChainDone(c) == \A t \in TaskNames : c.state[t] # "none"

\* A key that does not carry the endpoint's name.
XComKeyShared(endpoint_name, k) == <<"", k>>

\* f"{endpoint_name}_records", f"{endpoint_name}_source_files",
\* f"{endpoint_name}_df"
XComKey(endpoint_name, k) == <<endpoint_name, k>>

\* XCom.  xcom_push(key, value) stores the value under the pushing task, kept
\* here with the chain of that task.  xcom_pull(key=...) names no task: it
\* looks for the key among the values pushed by every task of the DAG run,
\* those of the other chain included.
Push(x, k, v) == [key \in DOMAIN x \cup {k} |-> IF key = k THEN v ELSE x[key]]

Pushed(d, k) == \E e \in DOMAIN d : k \in DOMAIN d[e].xcom

Pull(d, k) == d[CHOOSE e \in DOMAIN d : k \in DOMAIN d[e].xcom].xcom[k]

\* An attempt of task t returned.
Succeeded(c, t) == [c EXCEPT !.state[t] = "success", !.tries = 0]

\* An attempt of task t raised: the task is retried, or after the last retry
\* it failed; then its downstream tasks are upstream_failed, but audit_log,
\* whose trigger rule is ALL_DONE.
Raised(c, t) ==
    IF c.tries < Retries THEN [c EXCEPT !.tries = @ + 1]
    ELSE [c EXCEPT !.tries = 0,
                   !.state = [u \in TaskNames |->
                                IF u = t THEN "failed"
                                ELSE IF u \in After(t) \ {"audit_log"} THEN "upstream_failed"
                                ELSE @[u]]]

\* The callable of the ShortCircuitOperator t returned False: the operator
\* skips every task downstream of it, whatever their trigger rules.
ShortCircuited(c, t) ==
    [c EXCEPT !.tries = 0,
              !.state = [u \in TaskNames |->
                           IF u = t THEN "success"
                           ELSE IF u \in After(t) THEN "skipped"
                           ELSE @[u]]]

\* The failures to count for an attempt of task t: those of a retry of a task
\* already hit are not counted again.
AttemptCost(c, t, oks) == IF c.tries = 0 THEN Cost(oks) ELSE 0

\* The scheduler starts a DAG run (max_active_runs=1).
StartDag ==
    /\ entry = "dag"
    /\ run < MaxDagRuns
    /\ run = 0 \/ \A e \in EndpointNames : hist[e].ended
    /\ run' = run + 1
    /\ dag' = [e \in EndpointNames |-> NoChain]
    /\ prev' = Snapshot
    /\ hist' = [e \in EndpointNames |-> NoHistory]
    /\ UNCHANGED <<call, envVars, storage, fetchVars, tableVars, upsert, entry, main, faults>>

\* extract_api_data
DagExtract(e) ==
    /\ Ready(e, "extract")
    /\ \E clientOk \in BOOLEAN, bad \in 0..MaxPages :
          LET c == dag[e]
              f == fetch_paginated_data(api[e], e, TRUE, day, storage, bad)
              failed == f.exit = "except:upload"
              cost == AttemptCost(c, "extract", <<clientOk, ~failed>>)
          IN  /\ ~clientOk => bad = 0
              /\ bad # 0 => failed
              /\ faults + cost <= MaxFaults
              /\ faults' = faults + cost
              /\ IF clientOk
                 THEN /\ storage' = f.storage
                      /\ dag' = [dag EXCEPT ![e] =
                                    [Succeeded(c, "extract") EXCEPT !.xcom =
                                        Push(Push(@, XComKey(e, "records"), f.all_records),
                                             XComKey(e, "source_files"),
                                             f.blob_paths)]]
                      /\ hist' = [hist EXCEPT ![e] = Staged(@, "fetch")]
                 ELSE /\ dag' = [dag EXCEPT ![e] = Raised(c, "extract")]
                      /\ UNCHANGED <<storage, hist>>
    /\ UNCHANGED <<call, envVars, fetchVars, tableVars, upsert, entry, run, main, prev>>

\* transform_and_clean_task
DagTransform(e) ==
    /\ Ready(e, "transform")
    /\ LET df == flatten_and_clean(e, Pull(dag, XComKey(e, "records")), clock, day)
       IN  dag' = [dag EXCEPT ![e] = [Succeeded(@, "transform")
                                        EXCEPT !.xcom = Push(@, XComKey(e, "df"), df)]]
    /\ clock' = clock + 1
    /\ hist' = [hist EXCEPT ![e] = Staged(@, "clean")]
    /\ UNCHANGED <<call, api, bucket, day, storage, fetchVars, tableVars, upsert, entry, run, main,
                   prev, faults>>

\* data_quality_check_task, the callable of a ShortCircuitOperator
DagDqCheck(e) ==
    /\ Ready(e, "dq_check")
    /\ LET c == dag[e]
           df == Pull(dag, XComKey(e, "df"))
           v == run_data_quality_checks(df, e)
           h == [Staged(hist[e], "validate")
                    EXCEPT !.verdict = IF v.valid THEN "valid" ELSE "invalid",
                           !.issues = v.issues]
           status == "FAILED: Data Quality"
       IN  IF v.valid
           THEN /\ dag' = [dag EXCEPT ![e] = Succeeded(c, "dq_check")]
                /\ hist' = [hist EXCEPT ![e] = h]
                /\ UNCHANGED <<load_audit, faults>>
           ELSE \E auditOk \in BOOLEAN :
                  /\ faults + Cost(<<auditOk>>) <= MaxFaults
                  /\ faults' = faults + Cost(<<auditOk>>)
                  /\ load_audit' =
                        log_audit(load_audit,
                                  AuditRecord(e, Len(df.rows), status,
                                              Pull(dag, XComKey(e, "source_files")), clock),
                                  auditOk)
                  /\ dag' = [dag EXCEPT ![e] = ShortCircuited(c, "dq_check")]
                  /\ hist' = [hist EXCEPT ![e] =
                                 [Audited(h, status, auditOk) EXCEPT !.ended = TRUE]]
    /\ UNCHANGED <<call, envVars, storage, fetchVars, staging, tgt, upsert, entry, run, main, prev>>

\* load_staging_task
DagLoadStaging(e) ==
    /\ Ready(e, "load_staging")
    /\ \E jobOk \in BOOLEAN :
          LET c == dag[e]
              r == load_to_staging(Pull(dag, XComKey(e, "df")), staging[e], jobOk)
              cost == AttemptCost(c, "load_staging", <<jobOk>>)
          IN  /\ faults + cost <= MaxFaults
              /\ faults' = faults + cost
              /\ staging' = [staging EXCEPT ![e] = r.frame]
              /\ dag' = [dag EXCEPT ![e] = IF r.raised THEN Raised(c, "load_staging")
                                           ELSE Succeeded(c, "load_staging")]
              /\ hist' = [hist EXCEPT ![e].load = IF r.raised THEN "raised" ELSE "ok"]
    /\ UNCHANGED <<call, envVars, storage, fetchVars, tgt, load_audit, upsert, entry, run, main,
                   prev>>

\* upsert_final_task
DagUpsertFinal(e) ==
    /\ Ready(e, "upsert_final")
    /\ \E queryOk \in BOOLEAN :
          \E out \in IF queryOk THEN UpsertOutcomes(e, staging[e], tgt[e])
                     ELSE QueryFailure(e, tgt[e]) :
             LET c == dag[e]
                 cost == AttemptCost(c, "upsert_final", <<queryOk>>)
             IN  /\ faults + cost <= MaxFaults
                 /\ faults' = faults + cost
                 /\ tgt' = [tgt EXCEPT ![e] = out.rows]
                 /\ dag' = [dag EXCEPT ![e] = IF out.raised THEN Raised(c, "upsert_final")
                                              ELSE Succeeded(c, "upsert_final")]
                 /\ hist' = [hist EXCEPT ![e].merge = IF out.raised THEN "raised" ELSE "ok"]
    /\ UNCHANGED <<call, envVars, storage, fetchVars, staging, load_audit, upsert, entry, run, main,
                   prev>>

\* audit_logging_task, run once every upstream task is done (ALL_DONE):
\* len(df) raises for the None that xcom_pull gives for a key never pushed.
DagAuditLog(e) ==
    /\ Ready(e, "audit_log")
    /\ LET c == dag[e]
       IN  IF ~Pushed(dag, XComKey(e, "df"))
           THEN /\ dag' = [dag EXCEPT ![e] = Raised(c, "audit_log")]
                /\ hist' = [hist EXCEPT ![e].ended = ChainDone(Raised(c, "audit_log"))]
                /\ UNCHANGED <<load_audit, faults>>
           ELSE \E auditOk \in BOOLEAN :
                  /\ faults + Cost(<<auditOk>>) <= MaxFaults
                  /\ faults' = faults + Cost(<<auditOk>>)
                  /\ load_audit' =
                        log_audit(load_audit,
                                  AuditRecord(e, Len(Pull(dag, XComKey(e, "df")).rows), "SUCCESS",
                                              Pull(dag, XComKey(e, "source_files")), clock),
                                  auditOk)
                  /\ dag' = [dag EXCEPT ![e] = Succeeded(c, "audit_log")]
                  /\ hist' = [hist EXCEPT ![e] =
                                 [Audited(@, "SUCCESS", auditOk) EXCEPT !.ended = TRUE]]
    /\ UNCHANGED <<call, envVars, storage, fetchVars, staging, tgt, upsert, entry, run, main, prev>>

Next ==
    \/ StartMain
    \/ MainUndefined
    \/ MainFetch
    \/ MainClean
    \/ MainValidate
    \/ MainLoad
    \/ MainUpsert
    \/ MainAudit
    \/ StartDag
    \/ \E e \in EndpointNames : DagExtract(e)
    \/ \E e \in EndpointNames : DagTransform(e)
    \/ \E e \in EndpointNames : DagDqCheck(e)
    \/ \E e \in EndpointNames : DagLoadStaging(e)
    \/ \E e \in EndpointNames : DagUpsertFinal(e)
    \/ \E e \in EndpointNames : DagAuditLog(e)
    \/ NextDay

Spec == Init /\ [][Next]_vars

(***************************************************************************)
(* SpecBatch: flatten_and_clean called on a record list, then either the   *)
(* quality gate or load_to_staging called on the batch it returned.        *)
(***************************************************************************)
\* A record without the field k.
Without(r, k) == [key \in DOMAIN r \ {k} |-> r[key]]

\* The records a list ends with: well-formed ones, ones that repeat a key,
\* ones with a null, ones that lack a field.
BatchRecords(name) ==
    IF name = "daily_visits"
    THEN {DvRecord("2024-01-01T00:00:00", "i:10"), DvRecord("2024-01-01T00:00:00", "i:20"),
          DvRecord("2024-01-02T00:00:00", NULL), DvRecord(NULL, "i:10"),
          Without(DvRecord("2024-01-02T00:00:00", "i:10"), "total_visits"),
          Without(DvRecord("2024-01-02T00:00:00", "i:10"), "visit_date"),
          Without(DvRecord("2024-01-02T00:00:00", "i:20"), "visit_date")}
    ELSE {GaRecord("1", "Direct"), GaRecord("1", "Organic"), GaRecord("1", NULL),
          GaRecord(NULL, "Direct"), Without(GaRecord("2", "Direct"), "channelGrouping"),
          Without(GaRecord("2", "Direct"), "visitId")}

MaxTail == 2      \* records after the optional four well-formed ones

BatchInputs(name) ==
    {first \o rest : first \in {<<>>, Filler(name)},
                     rest \in SeqsUpTo(BatchRecords(name), MaxTail)}

\* What an earlier run left in staging_{name}.
EarlierStaging(name) ==
    StagingFrame(flatten_and_clean(name, <<Filler(name)[1], Filler(name)[2]>>, 0, 1))

InitBatch ==
    /\ \E name \in EndpointNames : \E records \in BatchInputs(name) :
          call = [fn |-> "", args |-> <<name, records>>, result |-> <<>>]
    /\ api = [e \in EndpointNames |-> <<>>]
    /\ bucket = FALSE
    /\ day = 1
    /\ clock = 1
    /\ storage = {}
    /\ fname = ENDPOINTS[1]
    /\ fetch = FetchEntry({})
    /\ \E old \in BOOLEAN :
          staging = [e \in EndpointNames |-> IF old THEN EarlierStaging(e) ELSE EmptyFrame]
    /\ tgt = [e \in EndpointNames |-> <<>>]
    /\ load_audit = <<>>
    /\ upsert = Idle
    /\ NoRuns

\* df = flatten_and_clean(name, records)
Clean ==
    /\ call.fn = ""
    /\ call' = [call EXCEPT !.fn = "flatten_and_clean",
                            !.result = flatten_and_clean(call.args[1], call.args[2],
                                                         clock, day)]
    /\ clock' = clock + 1
    /\ UNCHANGED <<api, bucket, day, storage, fetchVars, tableVars, upsert, runVars>>

\* run_data_quality_checks(df, table_name)
Check(table_name) ==
    /\ call.fn = "flatten_and_clean"
    /\ call' = [fn |-> "run_data_quality_checks", args |-> <<call.result, table_name>>,
                result |-> run_data_quality_checks(call.result, table_name)]
    /\ UNCHANGED <<envVars, storage, fetchVars, tableVars, upsert, runVars>>

\* load_to_staging(df, name)
Load ==
    /\ call.fn = "flatten_and_clean"
    /\ \E jobOk \in BOOLEAN :
          LET name == call.args[1]
              r == load_to_staging(call.result, staging[name], jobOk)
          IN  /\ call' = [fn |-> "load_to_staging",
                          args |-> <<call.result, name, staging[name], jobOk>>,
                          result |-> [raised |-> r.raised]]
              /\ staging' = [staging EXCEPT ![name] = r.frame]
    /\ UNCHANGED <<envVars, storage, fetchVars, tgt, load_audit, upsert, runVars>>

\* log_audit(name, len(df), status, source_files)
Audit(status) ==
    /\ call.fn = "flatten_and_clean"
    /\ \E writeOk \in BOOLEAN :
          LET rec == AuditRecord(call.args[1], Len(call.result.rows), status, <<>>, clock)
          IN  /\ call' = [fn |-> "log_audit", args |-> <<rec, writeOk, load_audit>>,
                          result |-> [raised |-> log_audit_raises(rec, writeOk)]]
              /\ load_audit' = log_audit(load_audit, rec, writeOk)
    /\ UNCHANGED <<envVars, storage, fetchVars, staging, tgt, upsert, runVars>>

NextBatch ==
    \/ Clean
    \/ \E table_name \in TableNames : Check(table_name)
    \/ Load
    \/ \E status \in {"SUCCESS", "FAILED: Data Quality"} : Audit(status)

SpecBatch == InitBatch /\ [][NextBatch]_vars

(***************************************************************************)
(* Claims about fetch_paginated_data, checked under SpecFetch.             *)
(***************************************************************************)
RECURSIVE PagesRecords(_, _)
\* The records of pages 1..n of the script, concatenated in page order.
PagesRecords(script, n) ==
    IF n = 0 THEN <<>>
    ELSE PagesRecords(script, n - 1) \o PageRecords(ApiResponse(script, n).body)

\* The ways of leaving the loop on a failure of the page being processed.
FailureExits == {"status", "except:get", "except:json", "except:upload", "except:pagination"}

\* The failures that strike after the page's records joined all_records.
LateFailureExits == {"except:upload", "except:pagination"}

AllExits == FailureExits \cup {"empty", "no_more"}

\* C8 as stated: when page k fails in any way, the function returns exactly
\* the concatenation of the records of pages 1..k-1.
C8_Original ==
    (fetch.done /\ fetch.exit \in FailureExits)
        => fetch.all_records = PagesRecords(api[fname], fetch.page - 1)

\* C8 amended: every way out of the loop is a break to the return statement
\* (no exception leaves the function), and when page k fails the function
\* returns the records of pages 1..k-1 in page order, followed by page k's own
\* records when the failure (the storage write, or reading the pagination
\* field) came after page k's records had been accumulated.
C8_PartialResult ==
    /\ fetch.done => fetch.exit \in AllExits
    /\ (fetch.done /\ fetch.exit \in FailureExits)
          => fetch.all_records =
                PagesRecords(api[fname], fetch.page - 1)
                \o (IF fetch.exit \in LateFailureExits
                    THEN PageRecords(ApiResponse(api[fname], fetch.page).body)
                    ELSE <<>>)

\* Page 2 failed after page 1 was accumulated; and a late failure happened.
C8_Witness ==
    /\ fetch.done
    /\ fetch.exit = "except:upload"
    /\ fetch.page = 2
    /\ Len(fetch.all_records) >= 2

BodyOfPage(k) == ApiResponse(api[fname], k).body

InSeq(x, s) == \E i \in DOMAIN s : s[i] = x

\* The response to page k says "no further pages" by one of the signals, or
\* carries neither.
SignalsEnd(k) ==
    LET b == BodyOfPage(k)
    IN  \/ ("pagination" \in DOMAIN b /\ b["pagination"] = "{has_next:false}")
        \/ ("hasMore" \in DOMAIN b /\ b["hasMore"] = "false")
        \/ (("pagination" \notin DOMAIN b \/ b["pagination"] = "{}")
             /\ "hasMore" \notin DOMAIN b)

\* C9 as stated: after a fetched page whose response has has_next == false,
\* or hasMore == false, or neither field, no later page is requested.
C9_Original ==
    \A k \in 1..MaxPages :
        (InSeq(k, fetch.pages) /\ SignalsEnd(k)) => ~InSeq(k + 1, fetch.requested)

\* C9 amended: pages are requested as 1, 2, 3, ... one at a time; a next page
\* is requested only after a non-empty page on which has_next or hasMore is
\* true; and the loop stops for "no more pages" exactly when neither signal
\* is true (a page with one signal false and the other true is followed by a
\* request for the next page).
C9_Pagination ==
    /\ \A i \in DOMAIN fetch.requested : fetch.requested[i] = i
    /\ Len(fetch.requested) = (IF fetch.done THEN fetch.page ELSE fetch.page - 1)
    /\ \A i \in DOMAIN fetch.requested :
          (i + 1 \in DOMAIN fetch.requested)
              => /\ InSeq(i, fetch.pages)
                 /\ PageRecords(BodyOfPage(i)) # <<>>
                 /\ (HasNext(BodyOfPage(i)) \/ HasMore(BodyOfPage(i)))
    /\ (fetch.done /\ fetch.exit = "no_more")
          => (~HasNext(BodyOfPage(fetch.page)) /\ ~HasMore(BodyOfPage(fetch.page)))

\* Page 2 was requested after a page 1 whose has_next is false and whose
\* hasMore is true.
C9_Witness ==
    /\ fetch.requested = <<1, 2>>
    /\ "pagination" \in DOMAIN BodyOfPage(1)
    /\ BodyOfPage(1)["pagination"] = "{has_next:false}"
    /\ HasMore(BodyOfPage(1))

\* C10 as stated: with a storage sink, the returned path list holds, in page
\* order, exactly one path per page whose records are returned, and every
\* listed path names an object that was written with that page's records.
C10_Claim ==
    (fetch.done /\ bucket)
        => /\ fetch.blob_paths =
                 [i \in DOMAIN fetch.pages |-> BlobPath(fname, day, fetch.pages[i])]
           /\ \A i \in DOMAIN fetch.blob_paths :
                 \E o \in storage :
                    /\ o.path = fetch.blob_paths[i]
                    /\ o.content = PageRecords(BodyOfPage(fetch.pages[i]))

(***************************************************************************)
(* Claims about upsert_to_final, checked under SpecMerge.                  *)
(***************************************************************************)
MergedGa == upsert.table_name = "ga_sessions" /\ ~upsert.raised

\* Rows i and j of staging are the two rows of their key, j the later one.
TwoRowsLaterIs(S, i, j) ==
    /\ KeyOf(S[i], GaKey) = KeyOf(S[j], GaKey)
    /\ S[i].load_timestamp < S[j].load_timestamp
    /\ \A k \in DOMAIN S : KeyOf(S[k], GaKey) = KeyOf(S[j], GaKey) => k \in {i, j}

RowsOfKey(T, k, K) == {n \in DOMAIN T : KeyOf(T[n], K) = k}

\* C6 as stated: after the merge the target holds exactly one row of the key
\* and its five merged columns are those of the later staging row.
C6_Original ==
    MergedGa =>
        \A i, j \in DOMAIN staging["ga_sessions"].rows :
            LET S == staging["ga_sessions"].rows
                T == tgt["ga_sessions"]
                hit == RowsOfKey(T, KeyOf(S[j], GaKey), GaKey)
            IN  TwoRowsLaterIs(S, i, j) =>
                    /\ Cardinality(hit) = 1
                    /\ \A n \in hit :
                          /\ T[n].channelGrouping = S[j].channelGrouping
                          /\ T[n].device_browser = S[j].device_browser
                          /\ T[n].geoNetwork_country = S[j].geoNetwork_country
                          /\ T[n].totals_hits = S[j].totals_hits
                          /\ T[n].load_timestamp = S[j].load_timestamp

\* C6 amended: after upsert_to_final("ga_sessions") on a staging table that
\* holds two rows of one (visitId, source_file) with different
\* load_timestamp, the target holds exactly one row of that key; its
\* channelGrouping, device_browser, geoNetwork_country and load_timestamp are
\* those of the later staging row and its totals_hits is the string cast of
\* that row's totals_hits, whether or not the key was in the target before.
C6_LatestWins ==
    MergedGa =>
        \A i, j \in DOMAIN staging["ga_sessions"].rows :
            LET S == staging["ga_sessions"].rows
                T == tgt["ga_sessions"]
                hit == RowsOfKey(T, KeyOf(S[j], GaKey), GaKey)
            IN  TwoRowsLaterIs(S, i, j) =>
                    /\ Cardinality(hit) = 1
                    /\ \A n \in hit :
                          /\ T[n].channelGrouping = S[j].channelGrouping
                          /\ T[n].device_browser = S[j].device_browser
                          /\ T[n].geoNetwork_country = S[j].geoNetwork_country
                          /\ T[n].totals_hits = CastString(S[j].totals_hits)
                          /\ T[n].load_timestamp = S[j].load_timestamp

\* A merge of two rows of one key that was in the target before, the later
\* row differing from the earlier one and from the target's row.
C6_Witness ==
    /\ MergedGa
    /\ \E i, j \in DOMAIN staging["ga_sessions"].rows :
          LET S == staging["ga_sessions"].rows
          IN  /\ TwoRowsLaterIs(S, i, j)
              /\ S[i].channelGrouping # S[j].channelGrouping
              /\ \E n \in DOMAIN upsert.before :
                    /\ KeyOf(upsert.before[n], GaKey) = KeyOf(S[j], GaKey)
                    /\ upsert.before[n].channelGrouping # S[j].channelGrouping

(***************************************************************************)
(* Claims about the runs of the pipeline (Spec).                           *)
(***************************************************************************)
\* The statuses of the model that start with "FAILED:".
FailedStatuses == {"FAILED: Data Quality", FailedStatus("load"), FailedStatus("merge")}

\* An audit call of this run for endpoint e had a FAILED status.
LoggedFailed(e) ==
    \E k \in DOMAIN hist[e].audit_calls : hist[e].audit_calls[k].status \in FailedStatuses

\* C1: whenever the quality gate returns valid=false for an endpoint's batch,
\* neither load_to_staging nor upsert_to_final is invoked for that endpoint in
\* that run, and by the end of the endpoint's run log_audit was called with a
\* status starting "FAILED:"; whatever the issues of the verdict.
C1_Claim ==
    \A e \in EndpointNames :
        hist[e].verdict = "invalid" =>
            /\ hist[e].load = "none"
            /\ hist[e].merge = "none"
            /\ hist[e].ended => LoggedFailed(e)

\* C2: when an endpoint's run has ended and no audit write failed, exactly one
\* audit record was appended for it in that run, from the command line too.
C2_Claim ==
    \A e \in EndpointNames :
        (/\ hist[e].ended
         /\ \A k \in DOMAIN hist[e].audit_calls : hist[e].audit_calls[k].written)
            => Len(hist[e].audit_calls) = 1

EndpointIndex(e) == CHOOSE i \in DOMAIN ENDPOINTS : ENDPOINTS[i] = e

RaisedIn(e) == hist[e].load = "raised" \/ hist[e].merge = "raised"

\* main() has gone past endpoint e.
MovedPast(e) == main.pc = "returned" \/ (main.pc # "idle" /\ main.i > EndpointIndex(e))

\* main() returned only after it went through every endpoint.
ReturnsAfterAll ==
    main.pc = "returned" =>
        \A e \in EndpointNames :
            /\ hist[e].ended
            /\ entry = "import" => hist[e].stages # <<>>

\* C3 as stated: in main(), when load_to_staging or upsert_to_final raises
\* for an endpoint, a record with a FAILED status is appended to load_audit for
\* it, main() goes on with the later endpoints and returns after all of them.
C3_Original ==
    /\ entry # "dag" =>
          \A e \in EndpointNames :
              RaisedIn(e) =>
                  /\ MovedPast(e)
                  /\ \E k \in DOMAIN hist[e].audit_calls :
                        /\ hist[e].audit_calls[k].status \in FailedStatuses
                        /\ hist[e].audit_calls[k].written
    /\ ReturnsAfterAll

\* C3, amended: in main(), when load_to_staging or upsert_to_final raises for
\* an endpoint, log_audit is called once for it, with the FAILED status of the
\* exception and record count 0; the record is in load_audit if that write
\* succeeded; main() goes on with the later endpoints and returns after all
\* of them.
C3_HandlerLogs ==
    /\ entry # "dag" =>
          \A e \in EndpointNames :
              RaisedIn(e) =>
                  /\ MovedPast(e)
                  /\ hist[e].ended
                  /\ Len(hist[e].audit_calls) = 1
                  /\ hist[e].audit_calls[1].status =
                        FailedStatus(IF hist[e].load = "raised" THEN "load" ELSE "merge")
                  /\ hist[e].audit_calls[1].written =>
                        \E n \in DOMAIN load_audit :
                            /\ load_audit[n].table_name = e
                            /\ load_audit[n].status = hist[e].audit_calls[1].status
                            /\ load_audit[n].record_count = 0
    /\ ReturnsAfterAll

\* The load of the first endpoint raised, its FAILED record was written, and
\* main() returned after it merged the second endpoint.
C3_Witness ==
    /\ entry = "import"
    /\ main.pc = "returned"
    /\ hist[ENDPOINTS[1]].load = "raised"
    /\ hist[ENDPOINTS[1]].audit_calls # <<>>
    /\ hist[ENDPOINTS[1]].audit_calls[1].written
    /\ hist[ENDPOINTS[2]].merge = "ok"

\* C4: in the DAG chain, after a load or merge step has failed the audit
\* step still runs, and log_audit is called with status "SUCCESS" for an
\* endpoint run only if its staging load and its merge both completed.
C4_Claim ==
    entry = "dag" =>
        \A e \in EndpointNames :
            /\ (/\ hist[e].ended
                /\ \/ dag[e].state["load_staging"] = "failed"
                   \/ dag[e].state["upsert_final"] = "failed")
                  => dag[e].state["audit_log"] \in {"success", "failed"}
            /\ \A k \in DOMAIN hist[e].audit_calls :
                  hist[e].audit_calls[k].status = "SUCCESS" =>
                      hist[e].load = "ok" /\ hist[e].merge = "ok"

\* A row without its load_timestamp.
WithoutTimestamp(row) == [c \in DOMAIN row \ {"load_timestamp"} |-> row[c]]

Untimed(T) == [n \in DOMAIN T |-> WithoutTimestamp(T[n])]

\* C5: when a second run, on the same date and without any failure, has
\* merged an endpoint the run before had merged, the target table is as the
\* first run left it: no row more, no column changed (load_timestamp apart,
\* which every merge of a matched row rewrites).
C5_Claim ==
    \A e \in EndpointNames :
        (/\ run = 2
         /\ faults = 0
         /\ prev.day = prev.start
         /\ prev.merged[e]
         /\ hist[e].merge = "ok")
            => Untimed(tgt[e]) = Untimed(prev.tgt[e])

\* C7: for every staging and target content the pipeline produces, the merge
\* of ga_sessions has one outcome.
C7_Claim ==
    Cardinality(UpsertOutcomes("ga_sessions", staging["ga_sessions"], tgt["ga_sessions"])) <= 1

\* C11: no storage path that holds a raw page object is written a second
\* time: every object in the bucket is the first one written at its path.
C11_Claim == \A o \in storage : o.generation = 1

(***************************************************************************)
(* Claims about the quality gate, the cleaner and the staging load         *)
(* (SpecBatch).                                                            *)
(***************************************************************************)
Checked == call.fn = "run_data_quality_checks"

\* The required columns of the batch df that are absent, and those that are
\* present and hold a null.
AbsentOf(df, table_name) ==
    {c \in {required_cols(table_name)[k] : k \in DOMAIN required_cols(table_name)} :
        c \notin df.cols}

NullOf(df, table_name) ==
    {c \in {required_cols(table_name)[k] : k \in DOMAIN required_cols(table_name)} :
        c \in df.cols /\ \E i \in DOMAIN df.rows : df.rows[i][c] = NULL}

\* Two rows of df have the same composite key of the table.
RepeatsKey(df, table_name) ==
    LET key == DuplicateKey(table_name)
    IN  /\ key # {}
        /\ key \subseteq df.cols
        /\ \E i, j \in DOMAIN df.rows :
              i < j /\ \A c \in key : df.rows[i][c] = df.rows[j][c]

\* C12: the verdict is valid iff the issue list is empty, and that is so
\* exactly when the batch is non-empty, no required column is absent or holds
\* a null, no row repeats the composite key, and there are at least 5 rows.
C12_Verdict ==
    Checked =>
        LET df == call.args[1]
            table_name == call.args[2]
        IN  /\ call.result.valid <=> call.result.issues = <<>>
            /\ call.result.valid <=>
                  /\ df.rows # <<>>
                  /\ AbsentOf(df, table_name) = {}
                  /\ NullOf(df, table_name) = {}
                  /\ ~RepeatsKey(df, table_name)
                  /\ Len(df.rows) >= 5
            /\ Len(df.rows) < 5 => ~call.result.valid

\* The gate found a batch valid.
C12_Witness == Checked /\ call.result.valid /\ Len(call.args[1].rows) >= 5

KindCount(issues, kind) == Cardinality({k \in DOMAIN issues : issues[k].kind = kind})

Indicator(b) == IF b THEN 1 ELSE 0

\* C13: for a non-empty batch the issue list holds one issue for the absent
\* required columns, one for each required column with a null, one for
\* repeated keys and one for a row count below 5, each iff that check fails,
\* and nothing else; an empty batch yields exactly the one "empty" issue.
C13_Accumulates ==
    Checked =>
        LET df == call.args[1]
            table_name == call.args[2]
            issues == call.result.issues
        IN  IF df.rows = <<>>
            THEN Len(issues) = 1 /\ issues[1].kind = "empty"
            ELSE /\ KindCount(issues, "empty") = 0
                 /\ KindCount(issues, "missing_columns")
                       = Indicator(AbsentOf(df, table_name) # {})
                 /\ \A c \in NullOf(df, table_name) :
                       \E k \in DOMAIN issues :
                           issues[k].kind = "null" /\ issues[k].cols = <<c>>
                 /\ KindCount(issues, "null") = Cardinality(NullOf(df, table_name))
                 /\ KindCount(issues, "duplicate") = Indicator(RepeatsKey(df, table_name))
                 /\ KindCount(issues, "low_count") = Indicator(Len(df.rows) < 5)
                 /\ Len(issues) = KindCount(issues, "missing_columns")
                                  + KindCount(issues, "null")
                                  + KindCount(issues, "duplicate")
                                  + KindCount(issues, "low_count")
                 /\ (table_name = "daily_visits" /\ "total_visits" \notin df.cols)
                       => \E k \in DOMAIN issues :
                             /\ issues[k].kind = "missing_columns"
                             /\ \E n \in DOMAIN issues[k].cols :
                                   issues[k].cols[n] = "total_visits"

\* A check that collected three issues or more, of three kinds or more.
C13_Witness ==
    /\ Checked
    /\ Len(call.result.issues) >= 3
    /\ Cardinality({call.result.issues[k].kind : k \in DOMAIN call.result.issues}) >= 3

\* The cell of a row in column c: null when the batch has no such column.
Cell(row, c) == IF c \in DOMAIN row THEN row[c] ELSE NULL

\* C14: the batch flatten_and_clean returns for daily_visits records holds no
\* two rows with the same (visit_date, source_file), a row without visit_date
\* counting as one with a null visit_date.
C14_Claim ==
    (call.fn = "flatten_and_clean" /\ call.args[1] = "daily_visits") =>
        \A i, j \in DOMAIN call.result.rows :
            i < j =>
                \/ Cell(call.result.rows[i], "visit_date")
                      # Cell(call.result.rows[j], "visit_date")
                \/ Cell(call.result.rows[i], "source_file")
                      # Cell(call.result.rows[j], "source_file")

StageOrder == <<"fetch", "clean", "validate">>

\* The batch of the current run of endpoint e, where the run holds one.
BatchOf(e) ==
    IF entry = "dag" THEN Pull(dag, XComKey(e, "df")) ELSE main.df

\* upsert_to_final is the next call of the run of endpoint e.
MergeIsNext(e) ==
    IF entry = "dag" THEN Ready(e, "upsert_final")
    ELSE main.pc = "upsert" /\ Name = e

\* C16: within one endpoint's run the stages happen in the order fetch,
\* clean, validate, stage-load, merge, audit: the load is invoked only after
\* the three stages before it, the merge only after the load has succeeded,
\* the SUCCESS audit of main() only after the merge, nothing after the run
\* has ended; and when the merge is about to be invoked staging_{name} holds
\* the batch of this run.
C16_StageOrder ==
    \A e \in EndpointNames :
        /\ \E n \in 0..Len(StageOrder) : hist[e].stages = SubSeq(StageOrder, 1, n)
        /\ hist[e].verdict # "none" <=> hist[e].stages = StageOrder
        /\ hist[e].load # "none" => hist[e].verdict # "none"
        /\ hist[e].merge # "none" => hist[e].load = "ok"
        /\ (entry # "dag" /\ \E k \in DOMAIN hist[e].audit_calls :
                                hist[e].audit_calls[k].status = "SUCCESS")
              => hist[e].merge = "ok"
        /\ MergeIsNext(e) =>
              /\ hist[e].load = "ok"
              /\ staging[e] = StagingFrame(BatchOf(e))

\* In a second run the merge of an endpoint is about to be invoked, and the
\* run before had loaded and merged that endpoint too.
C16_Witness ==
    \E e \in EndpointNames :
        /\ run = 2
        /\ prev.merged[e]
        /\ MergeIsNext(e)

(***************************************************************************)
(* Claims about the frame of upsert_to_final (SpecMerge).                  *)
(***************************************************************************)
\* C17: upsert_to_final with a table name other than daily_visits and
\* ga_sessions sends no query, returns without raising and leaves every
\* staging table, every final table and the audit table as they were.
C17_NoOp ==
    [][\A table_name \in TableNames \ {"daily_visits", "ga_sessions"} :
          UpsertToFinal(table_name) =>
              /\ ~upsert'.queried
              /\ ~upsert'.raised
              /\ staging' = staging
              /\ tgt' = tgt
              /\ load_audit' = load_audit]_vars

\* upsert_to_final was called with a name it has no statement for, while
\* staging and final tables held rows.
C17_Witness ==
    /\ upsert.table_name = "users"
    /\ \E e \in EndpointNames : staging[e].rows # <<>> /\ tgt[e] # <<>>

\* Two rows have the same (date(visit_date), source_file).
SameDvKey(t, r) == t.visit_date = r.visit_date /\ t.source_file = r.source_file

\* C18: a call upsert_to_final("daily_visits") that returns changes the target
\* only so: a target row whose (date(visit_date), source_file) equals that of a
\* staging row gets the total_visits and load_timestamp of such a row and
\* keeps the rest; the other target rows are unchanged; the staging rows
\* whose key no target row has are appended in full; no row is deleted.
C18_Claim ==
    (upsert.table_name = "daily_visits" /\ ~upsert.raised) =>
        LET T0 == upsert.before
            S == staging["daily_visits"].rows
            T == tgt["daily_visits"]
            fresh == Pick(S, {j \in DOMAIN S :
                                \A n \in DOMAIN T0 : ~SameDvKey(T0[n], S[j])}, 1)
        IN  /\ Len(T) = Len(T0) + Len(fresh)
            /\ \A n \in DOMAIN T0 :
                  IF \E j \in DOMAIN S : SameDvKey(T0[n], S[j])
                  THEN \E j \in DOMAIN S :
                          /\ SameDvKey(T0[n], S[j])
                          /\ T[n] = [T0[n] EXCEPT !.total_visits = S[j].total_visits,
                                                  !.load_timestamp = S[j].load_timestamp]
                  ELSE T[n] = T0[n]
            /\ \A k \in DOMAIN fresh : T[Len(T0) + k] = fresh[k]

(***************************************************************************)
(* Claims about load_to_staging called on its own (SpecBatch).             *)
(***************************************************************************)
\* The row of the batch as the loader sends it: visit_date as a date (null
\* when it is not one), visitId as text, every other cell as it is.
AsLoaded(row) ==
    [c \in DOMAIN row |->
        IF c = "visit_date" THEN (IF row[c] \in DOMAIN DateText THEN DateText[row[c]] ELSE NULL)
        ELSE IF c = "visitId" THEN AsTypeStr(row[c])
        ELSE row[c]]

\* C19: load_to_staging replaces the staging table: after a call that returns
\* with a batch that has rows, the staging table holds one row per row of the
\* batch, in the batch's order, as the loader sent it, and no row of an
\* earlier load; with a batch without rows the call returns and the staging
\* table is as it was; when the load job fails the call raises.
C19_Replaces ==
    call.fn = "load_to_staging" =>
        LET df == call.args[1]
            now == staging[call.args[2]]
            before == call.args[3]
            jobOk == call.args[4]
        IN  IF df.rows = <<>>
            THEN ~call.result.raised /\ now = before
            ELSE /\ call.result.raised <=> ~jobOk
                 /\ ~call.result.raised =>
                       /\ Len(now.rows) = Len(df.rows)
                       /\ \A i \in DOMAIN df.rows : now.rows[i] = AsLoaded(df.rows[i])
                       /\ \A i \in DOMAIN now.rows : now.rows[i].load_timestamp # 0

\* A batch with rows was loaded into a staging table that held the rows of an
\* earlier load.
C19_Witness ==
    /\ call.fn = "load_to_staging"
    /\ ~call.result.raised
    /\ call.args[1].rows # <<>>
    /\ call.args[3].rows # <<>>
    /\ \A i \in DOMAIN call.args[3].rows : call.args[3].rows[i].load_timestamp = 0

(***************************************************************************)
(* Claims about the two chains of a DAG run taken together (Spec).         *)
(***************************************************************************)
\* What the extract of endpoint e gives when nothing else runs: the fetch on
\* date d into a store with no object, the upload of page `bad` failing.
Alone(e, d, bad) == fetch_paginated_data(api[e], e, TRUE, d, {}, bad)

\* The records, source files and stored pages of endpoint e are those of its
\* extract run alone.
ExtractAsAlone(e) ==
    \E d \in DOMAIN Days, bad \in 0..MaxPages :
       LET f == Alone(e, d, bad)
       IN  /\ Pull(dag, XComKey(e, "records")) = f.all_records
           /\ Pull(dag, XComKey(e, "source_files")) = f.blob_paths
           /\ \A o \in f.storage :
                 \E q \in storage : q.path = o.path /\ q.content = o.content

\* The batch of endpoint e is the clean of its own records.
BatchAsAlone(e) ==
    \E d \in DOMAIN Days :
       LET df == Pull(dag, XComKey(e, "df"))
           own == flatten_and_clean(e, Pull(dag, XComKey(e, "records")), 0, d)
       IN  df.cols = own.cols /\ Untimed(df.rows) = Untimed(own.rows)

\* The staging table of endpoint e holds its own batch once loaded, and the
\* final table of e is a merge of its own staging table once merged; before,
\* they are as the run found them.
TablesAsAlone(e) ==
    /\ staging[e] = IF hist[e].load = "ok"
                    THEN load_to_staging(Pull(dag, XComKey(e, "df")), EmptyFrame, TRUE).frame
                    ELSE EmptyFrame
    /\ IF hist[e].merge = "ok"
       THEN \E out \in UpsertOutcomes(e, staging[e], prev.tgt[e]) : tgt[e] = out.rows
       ELSE tgt[e] = prev.tgt[e]

\* Every stored object is a page of the endpoint its path names, and every
\* audit row counts the batch and lists the source files of the endpoint it
\* names.
SharedAsAlone ==
    /\ \A o \in storage :
          /\ o.path[1] \in EndpointNames
          /\ o.path[3] \in DOMAIN api[o.path[1]]
          /\ o.content = PageRecords(api[o.path[1]][o.path[3]].body)
    /\ \A i \in DOMAIN load_audit :
          LET a == load_audit[i]
          IN  /\ a.table_name \in EndpointNames
              /\ a.record_count = Len(Pull(dag, XComKey(a.table_name, "df")).rows)
              /\ a.source_files = Pull(dag, XComKey(a.table_name, "source_files"))

\* C20: the chains of the two endpoints of a DAG run do not interfere: in
\* whatever order their tasks are interleaved, the records, source files and
\* stored pages of each endpoint are those of its extract run alone, its
\* batch is the clean of its own records (the load_timestamp aside, which is
\* the instant of the clean), its staging table holds its own batch, its
\* final table is a merge of its own staging table, and each row of
\* load_audit, the one table both chains write, describes the endpoint it
\* names.
C20_NoInterference ==
    (entry = "dag" /\ run >= 1) =>
        /\ \A e \in EndpointNames :
              /\ dag[e].state["extract"] = "success" => ExtractAsAlone(e)
              /\ dag[e].state["transform"] = "success" => BatchAsAlone(e)
              /\ TablesAsAlone(e)
        /\ SharedAsAlone

\* load_audit only grows: a step appends rows or leaves the table as it is.
C20_AppendOnly ==
    [][/\ Len(load_audit') >= Len(load_audit)
       /\ SubSeq(load_audit', 1, Len(load_audit)) = load_audit]_vars

\* Both chains ran to their end with their tasks interleaved: daily_visits
\* was cleaned before ga_sessions, ga_sessions was audited before
\* daily_visits, and both were merged.
C20_Witness ==
    /\ entry = "dag"
    /\ \A e \in EndpointNames : hist[e].merge = "ok" /\ tgt[e] # <<>> /\ hist[e].ended
    /\ Pull(dag, XComKey("daily_visits", "df")).rows[1].load_timestamp
          < Pull(dag, XComKey("ga_sessions", "df")).rows[1].load_timestamp
    /\ Len(load_audit) = 2
    /\ load_audit[1].table_name = "ga_sessions"
    /\ load_audit[2].table_name = "daily_visits"

(***************************************************************************)
(* Claims about the keys of the final tables (Spec).                       *)
(***************************************************************************)
\* No two rows of T agree on every column of key.
OneRowPerKey(T, key) ==
    \A m, n \in DOMAIN T : (\A c \in key : T[m][c] = T[n][c]) => m = n

\* C21: after any sequence of runs that starts from empty final tables, the
\* final daily_visits table holds at most one row per (date(visit_date),
\* source_file) and the final ga_sessions table holds at most one row per
\* (visitId, source_file).
C21_Claim ==
    /\ OneRowPerKey(tgt["daily_visits"], {"visit_date", "source_file"})
    /\ OneRowPerKey(tgt["ga_sessions"], {"visitId", "source_file"})

====
